---- MODULE Spec2Model ----
(***************************************************************************)
(* Bubbels monitor: a Streamlit baby tracker backed by a Google            *)
(* spreadsheet.  Two revisions of the script are modelled, babytracker_5   *)
(* and babytracker_7 (variable rev).  Each action is one script run: the   *)
(* on_click callback (if any), then load_data() through st.cache_data,     *)
(* then the button handler of the form that was submitted.                 *)
(***************************************************************************)
EXTENDS Integers, Sequences, FiniteSets, TLC

VARIABLES
    rev,                    \* 5 or 7: the revision of the script that is running
    opened,                 \* how many worksheets were opened: 0..3 (baby, voorraad, bijvulling)
    now,                    \* wall clock, whole seconds
    older,                  \* rows of BabyRecords that predate this run (contents not modelled)
    sheet_baby,             \* worksheet BabyRecords: header row, then the rows appended
    sheet_voorraad,         \* worksheet Voorraad: header row, then one row per product
    sheet_bijvulling,       \* worksheet VoorraadBijvulling: header row, then the log
    cache,                  \* st.cache_data entry of load_data
    baby_records,           \* module global: records table of the last script run
    voorraad,               \* module global: inventory table of the last script run
    active_slaap_session,   \* st.session_state: << >> (None) or <<[start_time]>>
    active_voeding_session, \* st.session_state: << >> (None) or <<[start_time, borst]>>
    slaap_opmerking,        \* st.session_state: pending note of the sleep timer
    voeding_opmerking,      \* st.session_state: pending note of the feeding timer
    submitted,              \* history: the fields each appended record was submitted with
    out                     \* what the last script run did: messages, store calls, exception

vars == <<rev, opened, now, older, sheet_baby, sheet_voorraad, sheet_bijvulling,
          cache, baby_records, voorraad, active_slaap_session,
          active_voeding_session, slaap_opmerking, voeding_opmerking, submitted, out>>

(***************************************************************************)
(* Bounds of the model.                                                    *)
(***************************************************************************)
MaxStock == 3       \* restocking stops at this stock
MaxAmount == 2      \* largest amount typed into a number_input
MaxLog == 1         \* replenishment entries appended in one run of the model
MaxAdds == 1        \* rows the timers and the diaper form append in one run of the model
MaxRows == 2        \* rows the sleep form may bring the sheet to
MaxTime == 150      \* longest sleep session, in seconds
Windows == 1        \* cache windows the clock of the inventory runs through
ManyRows == 998     \* a BabyRecords sheet that already holds this many rows

(***************************************************************************)
(* Program constants.                                                      *)
(***************************************************************************)
TTL == 60           \* @st.cache_data(ttl=60)
UtcOffsetMin == 60  \* Europe/Amsterdam is UTC+1 (winter time), in minutes
Band == 2           \* val > minv + 2
IdWidth == 3        \* f"R{len(baby_records) + 1:03}"

(***************************************************************************)
(* Spreadsheet cells.  A cell is a tagged pair, so that text, numbers,     *)
(* formatted timestamps and ids can share a row.                           *)
(***************************************************************************)
Str(s) == <<"s", s>>
Num(n) == <<"n", n>>
Stamp(m) == <<"t", m>>       \* the text 'YYYY-MM-DD HH:MM' of local minute m
Dec(tenths) == <<"d", tenths>>    \* a float with one decimal, e.g. 3.3 as Dec(33)
Comma(tenths) == <<"c", tenths>>  \* a text with a decimal comma, e.g. "3,3" as Comma(33)
Empty == Str("")

IsNum(c) == c[1] = "n"

Min(S) == CHOOSE x \in S : \A y \in S : x <= y
Max(S) == CHOOSE x \in S : \A y \in S : x >= y

\* datetime.strftime('%Y-%m-%d %H:%M'): the seconds are dropped
Strftime(t) == Stamp(t \div 60)

\* worksheet.update_cell(row, col, value); rows and columns count from 1,
\* row 1 is the header
UpdateCell(sheet, row, col, value) ==
    [sheet EXCEPT ![row] = [@ EXCEPT ![col] = value]]

\* worksheet.append_row(values)
AppendRow(sheet, values) == Append(sheet, values)

\* worksheet.get_all_records(): one dict per data row, keyed by the header row
GetAllRecords(sheet) ==
    LET header == sheet[1]
        keys == {header[j][2] : j \in 1..Len(header)}
        pos(k) == CHOOSE j \in 1..Len(header) : header[j][2] = k
    IN  [i \in 1..(Len(sheet) - 1) |->
            [k \in keys |-> IF pos(k) <= Len(sheet[i + 1])
                            THEN sheet[i + 1][pos(k)] ELSE Empty]]

\* worksheets in the order the script opens them; an exception while opening
\* leaves the later ones None
BabyOpen == opened >= 1
VoorraadOpen == opened >= 2
BijvullingOpen == opened >= 3

(***************************************************************************)
(* Inventory (Voorraad).                                                   *)
(***************************************************************************)
VoorraadHeader == <<Str("Productnaam"), Str("Actuele voorraad"), Str("Minimum voorraad")>>
BijvullingHeader == <<Str("Datum"), Str("Product"), Str("Aantal")>>

\* DataFrame.columns.get_loc(name): 0-based position of the column
GetLoc(header, name) == (CHOOSE j \in 1..Len(header) : header[j] = Str(name)) - 1

\* pd.to_numeric(x, errors='coerce').fillna(0)
NumOrZero(c) == IF IsNum(c) THEN c[2] ELSE 0

Products(vr) == [i \in 1..Len(vr) |-> vr[i]["Productnaam"][2]]

\* the rows selected by mask = voorraad['Productnaam'] == productnaam
Mask(vr, productnaam) == {i \in 1..Len(vr) : vr[i]["Productnaam"] = Str(productnaam)}

NoCall == << >>
Result(vr, sheet, msgs, calls, raised) ==
    [voorraad |-> vr, sheet |-> sheet, msgs |-> msgs, calls |-> calls, raised |-> raised]

\* update_voorraad7 writing one row too high (index + 1 instead of index + 2)
update_voorraad7WrongRow(vr, sheet, avail, productnaam, hoeveelheid, ok) ==
    IF vr = << >> \/ ~avail
    THEN Result(vr, sheet, <<"warning">>, NoCall, FALSE)
    ELSE
    LET mask == Mask(vr, productnaam) IN
    IF mask = {}
    THEN Result(vr, sheet, <<"error">>, NoCall, FALSE)
    ELSE
    LET summed == [i \in 1..Len(vr) |->
                     IF i \in mask
                     THEN [vr[i] EXCEPT !["Actuele voorraad"] = Num(NumOrZero(@) + hoeveelheid)]
                     ELSE vr[i]]
        clamped == [i \in 1..Len(vr) |->
                     IF IsNum(summed[i]["Actuele voorraad"]) /\ summed[i]["Actuele voorraad"][2] < 0
                     THEN [summed[i] EXCEPT !["Actuele voorraad"] = Num(0)]
                     ELSE summed[i]]
        row_idx == (Min(mask) - 1) + 1
        col_idx == GetLoc(VoorraadHeader, "Actuele voorraad") + 1
        value == clamped[Min(mask)]["Actuele voorraad"]
        call == [fn |-> "update_cell", sheet |-> "Voorraad", row |-> row_idx,
                 col |-> col_idx, value |-> value, ok |-> ok]
    IN  IF ok
        THEN Result(clamped, UpdateCell(sheet, row_idx, col_idx, value), << >>, <<call>>, FALSE)
        ELSE Result(clamped, sheet, <<"error">>, <<call>>, FALSE)

\* babytracker_7 update_voorraad(productnaam, hoeveelheid); ok: the store
\* accepts the update_cell call
update_voorraad7(vr, sheet, avail, productnaam, hoeveelheid, ok) ==
    IF vr = << >> \/ ~avail
    THEN Result(vr, sheet, <<"warning">>, NoCall, FALSE)
    ELSE
    LET mask == Mask(vr, productnaam) IN
    IF mask = {}
    THEN Result(vr, sheet, <<"error">>, NoCall, FALSE)
    ELSE
    LET summed == [i \in 1..Len(vr) |->
                     IF i \in mask
                     THEN [vr[i] EXCEPT !["Actuele voorraad"] = Num(NumOrZero(@) + hoeveelheid)]
                     ELSE vr[i]]
        clamped == [i \in 1..Len(vr) |->
                     IF IsNum(summed[i]["Actuele voorraad"]) /\ summed[i]["Actuele voorraad"][2] < 0
                     THEN [summed[i] EXCEPT !["Actuele voorraad"] = Num(0)]
                     ELSE summed[i]]
        row_idx == (Min(mask) - 1) + 2
        col_idx == GetLoc(VoorraadHeader, "Actuele voorraad") + 1
        value == clamped[Min(mask)]["Actuele voorraad"]
        call == [fn |-> "update_cell", sheet |-> "Voorraad", row |-> row_idx,
                 col |-> col_idx, value |-> value, ok |-> ok]
    IN  IF ok
        THEN Result(clamped, UpdateCell(sheet, row_idx, col_idx, value), << >>, <<call>>, FALSE)
        ELSE Result(clamped, sheet, <<"error">>, <<call>>, FALSE)

\* babytracker_5 update_voorraad(productnaam, hoeveelheid): no clamp, and
\* mask[mask].index[0] raises IndexError when no row matches
update_voorraad5(vr, sheet, avail, productnaam, hoeveelheid, ok) ==
    IF vr = << >> \/ ~avail
    THEN Result(vr, sheet, <<"warning">>, NoCall, FALSE)
    ELSE
    LET mask == Mask(vr, productnaam) IN
    IF mask = {}
    THEN Result(vr, sheet, << >>, NoCall, TRUE)
    ELSE
    LET summed == [i \in 1..Len(vr) |->
                     IF i \in mask
                     THEN [vr[i] EXCEPT !["Actuele voorraad"] = Num(@[2] + hoeveelheid)]
                     ELSE vr[i]]
        row_index == (Min(mask) - 1) + 2
        col_index == GetLoc(VoorraadHeader, "Actuele voorraad") + 1
        nieuw_voorraad == summed[Min(mask)]["Actuele voorraad"]
        call == [fn |-> "update_cell", sheet |-> "Voorraad", row |-> row_index,
                 col |-> col_index, value |-> nieuw_voorraad, ok |-> ok]
    IN  IF ok
        THEN Result(summed, UpdateCell(sheet, row_index, col_index, nieuw_voorraad), << >>, <<call>>, FALSE)
        ELSE Result(summed, sheet, << >>, <<call>>, TRUE)

update_voorraad(vr, sheet, avail, productnaam, hoeveelheid, ok) ==
    IF rev = 7 THEN update_voorraad7(vr, sheet, avail, productnaam, hoeveelheid, ok)
    ELSE update_voorraad5(vr, sheet, avail, productnaam, hoeveelheid, ok)

(***************************************************************************)
(* Inventory status colour.                                                *)
(***************************************************************************)
\* Kleur7 with the orange band starting at the minimum itself
\* pd.to_numeric(x, errors='coerce') gives a number for an int or a float cell
\* and NaN for anything else
IsNumeric(c) == c[1] \in {"n", "d"}

\* that number, in tenths
Tenths(c) == IF c[1] = "n" THEN 10 * c[2] ELSE c[2]

\* babytracker_7, Dashboard banner: the rows with to_numeric(stock) <=
\* to_numeric(minimum); a comparison with NaN is False
IsKritiek(r) ==
    /\ IsNumeric(r["Actuele voorraad"])
    /\ IsNumeric(r["Minimum voorraad"])
    /\ Tenths(r["Actuele voorraad"]) <= Tenths(r["Minimum voorraad"])

\* kritiek['Productnaam'].tolist()
Kritiek(vr) ==
    LET rows == SelectSeq([i \in 1..Len(vr) |-> vr[i]], IsKritiek)
    IN  [i \in 1..Len(rows) |-> rows[i]["Productnaam"][2]]

Kleur7OffByOne(r) ==
    LET val == NumOrZero(r["Actuele voorraad"])
        minv == NumOrZero(r["Minimum voorraad"])
    IN  IF val > minv + Band THEN "green" ELSE IF val >= minv THEN "orange" ELSE "red"

\* babytracker_7, Voorraad tab: int(pd.to_numeric(x, errors='coerce') or 0)
\* for both cells inside one try; any exception sets val = minv = 0
Kleur7(r) ==
    LET good == IsNumeric(r["Actuele voorraad"]) /\ IsNumeric(r["Minimum voorraad"])
        val == IF good THEN Tenths(r["Actuele voorraad"]) \div 10 ELSE 0
        minv == IF good THEN Tenths(r["Minimum voorraad"]) \div 10 ELSE 0
    IN  IF val > minv + Band THEN "green" ELSE IF val > minv THEN "orange" ELSE "red"

\* babytracker_5, Dashboard tab: the raw cells are compared
Kleur5(r) ==
    LET voorraad_val == r["Actuele voorraad"][2]
        min_val == r["Minimum voorraad"][2]
    IN  IF voorraad_val > min_val + Band THEN "green"
        ELSE IF voorraad_val > min_val THEN "orange" ELSE "red"

Kleur(r) == IF rev = 7 THEN Kleur7(r) ELSE Kleur5(r)

(***************************************************************************)
(* Records (BabyRecords) and load_data.                                    *)
(***************************************************************************)
BabyHeader ==
    <<Str("ID"), Str("Type"), Str("Starttijd"), Str("Eindtijd"), Str("Hoeveelheid"),
      Str("Opmerking"), Str("Type Luier"), Str("Borst"), Str("Kolven"), Str("Fles"),
      Str("Voeding_type"), Str("Gewicht"), Str("Lengte"), Str("Temperatuur"),
      Str("Opmerkingen / ziekten")>>

NaT == <<"nat", 0>>
Timestamp(m) == <<"ts", m>>     \* a zone-aware Timestamp, as its local minute
Float(tenths) == <<"f", tenths>>

\* babytracker_7 parse_time: a naive timestamp is localized to LOCAL_TZ
parse_time7(c) == IF c[1] = "t" THEN Timestamp(c[2]) ELSE NaT

\* babytracker_5: pd.to_datetime(..).dt.tz_localize('UTC').dt.tz_convert(LOCAL_TZ)
parse_time5(c) == IF c[1] = "t" THEN Timestamp(c[2] + UtcOffsetMin) ELSE NaT

\* astype(str).str.replace(',', '.'), pd.to_numeric(errors='coerce').fillna(0.0)
\* babytracker_7: astype(str).str.replace(',', '.'), then
\* pd.to_numeric(errors='coerce').fillna(0.0)
to_float(c) == IF c[1] = "n" THEN Float(10 * c[2])
               ELSE IF c[1] \in {"d", "c"} THEN Float(c[2])
               ELSE Float(0)

\* babytracker_5: pd.to_numeric(errors='coerce').fillna(0)
to_float5(c) == IF c[1] = "n" THEN Float(10 * c[2])
                ELSE IF c[1] = "d" THEN Float(c[2])
                ELSE Float(0)

ParseRecord7(r) ==
    [k \in DOMAIN r |->
        IF k \in {"Starttijd", "Eindtijd"} THEN parse_time7(r[k])
        ELSE IF k \in {"Hoeveelheid", "Gewicht", "Lengte", "Temperatuur"} THEN to_float(r[k])
        ELSE r[k]]

ParseRecord5(r) ==
    [k \in DOMAIN r |->
        IF k \in {"Starttijd", "Eindtijd"} THEN parse_time5(r[k])
        ELSE IF k = "Hoeveelheid" THEN to_float5(r[k])
        ELSE r[k]]

NoData == [baby |-> [older |-> 0, rows |-> << >>], voorraad |-> << >>]

\* load_data(): fetch and parse the worksheets that are open
load_data(n, sb, sv) ==
    [baby |-> IF BabyOpen
              THEN [older |-> n,
                    rows |-> LET recs == GetAllRecords(sb)
                             IN [i \in 1..Len(recs) |->
                                    IF rev = 7 THEN ParseRecord7(recs[i])
                                    ELSE ParseRecord5(recs[i])]]
              ELSE NoData.baby,
     voorraad |-> IF VoorraadOpen THEN GetAllRecords(sv) ELSE << >>]

\* load_data without the cache: every run reads the store
CachedNever(c, t, n, sb, sv) ==
    [valid |-> TRUE, at |-> t, data |-> load_data(n, sb, sv)]

\* @st.cache_data(ttl=..): the entry is reused while it is younger than TTL
Cached(c, t, n, sb, sv) ==
    IF c.valid /\ t - c.at < TTL THEN c
    ELSE [valid |-> TRUE, at |-> t, data |-> load_data(n, sb, sv)]

\* len(baby_records)
LenRecords(br) == br.older + Len(br.rows)

(***************************************************************************)
(* Initial states.                                                         *)
(***************************************************************************)
ProductRow(p, cur, minv) == <<Str(p), Num(cur), Num(minv)>>

\* the state after the first script run, the worksheets holding sb and sv
StartWith(r, o, n, sb, sv) ==
    /\ rev = r
    /\ opened = o
    /\ now = 0
    /\ older = n
    /\ sheet_baby = sb
    /\ sheet_voorraad = sv
    /\ sheet_bijvulling = <<BijvullingHeader>>
    /\ cache = [valid |-> TRUE, at |-> 0, data |-> load_data(n, sb, sv)]
    /\ baby_records = cache.data.baby
    /\ voorraad = cache.data.voorraad
    /\ active_slaap_session = << >>
    /\ active_voeding_session = << >>
    /\ slaap_opmerking = ""
    /\ voeding_opmerking = ""
    /\ submitted = << >>
    /\ out = [op |-> "start", args |-> << >>, msgs |-> << >>, calls |-> << >>,
              raised |-> FALSE, shown |-> << >>, update |-> << >>, added |-> << >>, edited |-> << >>]

\* the same with no record in BabyRecords
Start(r, o, n, sv) == StartWith(r, o, n, <<BabyHeader>>, sv)

Outcome(op, args, msgs, calls, raised) ==
    [op |-> op, args |-> args, msgs |-> msgs, calls |-> calls, raised |-> raised,
     shown |-> << >>, update |-> << >>, added |-> << >>, edited |-> << >>]

\* the same, for a run that appended a record with result a
Returned(o, a) ==
    [o EXCEPT !.added = <<[success |-> a.success, msgs |-> a.msgs, calls |-> a.calls]>>]

\* the same, for a run that called update_voorraad with result u
Updated(o, u) == [o EXCEPT !.update = <<[msgs |-> u.msgs, calls |-> u.calls, raised |-> u.raised]>>]

\* the clock
Tick(d, limit) ==
    /\ now + d <= limit
    /\ now' = now + d
    /\ UNCHANGED <<rev, opened, older, sheet_baby, sheet_voorraad, sheet_bijvulling,
                   cache, baby_records, voorraad, active_slaap_session,
                   active_voeding_session, slaap_opmerking, voeding_opmerking, submitted, out>>

(***************************************************************************)
(* Voorraad tab.                                                           *)
(***************************************************************************)
\* st.selectbox('Product', ...): None when there are no options
Choices(vr) == IF vr = << >> THEN {""} ELSE {Products(vr)[i] : i \in 1..Len(vr)}

\* 'Voorraad bijvullen': update_voorraad, then the log row, then st.success;
\* okCell, okLog: the store accepts update_cell, append_row
Bijvullen(prod_to_add, aantal_to_add, okCell, okLog) ==
    /\ Len(sheet_bijvulling) - 1 < MaxLog
    /\ \E c \in {Cached(cache, now, older, sheet_baby, sheet_voorraad)} :
       /\ prod_to_add \in Choices(c.data.voorraad)
       /\ rev = 5 => c.data.voorraad # << >>
       /\ \A i \in Mask(c.data.voorraad, prod_to_add) :
             NumOrZero(c.data.voorraad[i]["Actuele voorraad"]) + aantal_to_add <= MaxStock
       /\ \E u \in {update_voorraad(c.data.voorraad, sheet_voorraad, VoorraadOpen,
                                    prod_to_add, aantal_to_add, okCell)} :
          LET entry == <<Strftime(now), Str(prod_to_add), Num(aantal_to_add)>>
              logged == (BijvullingOpen \/ rev = 5) /\ ~u.raised
              logcall == [fn |-> "append_row", sheet |-> "VoorraadBijvulling", row |-> 0,
                          col |-> 0, value |-> entry, ok |-> okLog /\ BijvullingOpen]
              raised == u.raised \/ (logged /\ ~logcall.ok)
          IN  /\ cache' = c
              /\ baby_records' = c.data.baby
              /\ voorraad' = u.voorraad
              /\ sheet_voorraad' = u.sheet
              /\ sheet_bijvulling' = IF logged /\ logcall.ok
                                     THEN AppendRow(sheet_bijvulling, entry)
                                     ELSE sheet_bijvulling
              /\ out' = Updated(Outcome("bijvullen", <<prod_to_add, aantal_to_add>>,
                                        u.msgs \o (IF raised THEN << >> ELSE <<"success">>),
                                        u.calls \o (IF logged THEN <<logcall>> ELSE << >>),
                                        raised), u)
    /\ UNCHANGED <<rev, opened, now, older, sheet_baby, active_slaap_session,
                   active_voeding_session, slaap_opmerking, voeding_opmerking, submitted>>

\* 'Voorraad verminderen': number_input is capped at max(maxv, 1) in
\* babytracker_7 and at the stock itself in babytracker_5
Verminderen(prod_to_remove, aantal_to_remove, okCell) ==
    /\ \E c \in {Cached(cache, now, older, sheet_baby, sheet_voorraad)} :
       LET vr == c.data.voorraad
           rows == Mask(vr, prod_to_remove)
           maxv == IF rows = {} THEN 0 ELSE NumOrZero(vr[Min(rows)]["Actuele voorraad"])
       IN  /\ prod_to_remove \in Choices(vr)
           /\ rev = 5 => vr # << >>
           /\ aantal_to_remove <= (IF rev = 7 THEN Max({maxv, 1}) ELSE maxv)
           /\ \E u \in {update_voorraad(vr, sheet_voorraad, VoorraadOpen,
                                        prod_to_remove, 0 - aantal_to_remove, okCell)} :
              /\ cache' = c
              /\ baby_records' = c.data.baby
              /\ voorraad' = u.voorraad
              /\ sheet_voorraad' = u.sheet
              /\ out' = Updated(Outcome("verminderen", <<prod_to_remove, 0 - aantal_to_remove>>,
                                        u.msgs \o (IF u.raised THEN << >> ELSE <<"success">>),
                                        u.calls, u.raised), u)
    /\ UNCHANGED <<rev, opened, now, older, sheet_baby, sheet_bijvulling,
                   active_slaap_session, active_voeding_session,
                   slaap_opmerking, voeding_opmerking, submitted>>

(***************************************************************************)
(* Adding records.                                                         *)
(***************************************************************************)
RECURSIVE Digits(_)
Digits(k) == IF k < 10 THEN <<k>> ELSE Append(Digits(k \div 10), k % 10)

RECURSIVE Zfill(_, _)
Zfill(d, w) == IF Len(d) >= w THEN d ELSE Zfill(<<0>> \o d, w)

\* FormatId cutting the number down to its last three digits
FormatIdThreeDigits(n) == <<"r", Zfill(Digits(n % 1000), 3)>>

\* f"R{n:03}": the letter R, then n padded with zeros to a width of at least 3
FormatId(n) == <<"r", Zfill(Digits(n), IdWidth)>>

\* nieuwe_id = f"R{len(baby_records) + 1:03}"
nieuwe_id(br) == FormatId(LenRecords(br) + 1)

Added(sheet, msgs, calls, success, raised) ==
    [sheet |-> sheet, msgs |-> msgs, calls |-> calls, success |-> success, raised |-> raised]

AppendCall(row, ok) ==
    [fn |-> "append_row", sheet |-> "BabyRecords", row |-> 0, col |-> 0,
     value |-> row, ok |-> ok]

\* add_record returning True whether or not the row was appended
add_recordAlwaysTrue(br, sheet, avail, record_type, values, ok) ==
    IF ~avail
    THEN Added(sheet, <<"error">>, << >>, FALSE, FALSE)
    ELSE LET row == <<nieuwe_id(br), Str(record_type)>> \o values
         IN  IF ok
             THEN Added(AppendRow(sheet, row), <<"success">>, <<AppendCall(row, TRUE)>>, TRUE, FALSE)
             ELSE Added(sheet, <<"error">>, <<AppendCall(row, FALSE)>>, TRUE, FALSE)

\* babytracker_7 add_record(record_type, values)
add_record(br, sheet, avail, record_type, values, ok) ==
    IF ~avail
    THEN Added(sheet, <<"error">>, << >>, FALSE, FALSE)
    ELSE LET row == <<nieuwe_id(br), Str(record_type)>> \o values
         IN  IF ok
             THEN Added(AppendRow(sheet, row), <<"success">>, <<AppendCall(row, TRUE)>>, TRUE, FALSE)
             ELSE Added(sheet, <<"error">>, <<AppendCall(row, FALSE)>>, FALSE, FALSE)

\* babytracker_5: every form builds its own row and calls
\* sheet_baby.append_row unguarded
append_row5(br, sheet, avail, record_type, values, ok) ==
    LET row == <<nieuwe_id(br), Str(record_type)>> \o values
    IN  IF avail /\ ok
        THEN Added(AppendRow(sheet, row), << >>, <<AppendCall(row, TRUE)>>, TRUE, FALSE)
        ELSE Added(sheet, << >>, <<AppendCall(row, FALSE)>>, FALSE, TRUE)

Blanks(n) == [i \in 1..n |-> Empty]

\* the record a form submits: its type, its start and its other fields by name
FieldNames == {BabyHeader[j][2] : j \in 2..Len(BabyHeader)}
Fields(record_type, start_dt, others) ==
    [k \in FieldNames |->
        IF k = "Type" THEN Str(record_type)
        ELSE IF k = "Starttijd" THEN start_dt
        ELSE IF k \in DOMAIN others THEN others[k] ELSE Empty]

(***************************************************************************)
(* Luiers tab.                                                             *)
(***************************************************************************)
LuierTypes == IF rev = 7 THEN {"Nat", "Vuil"} ELSE {"Plas", "Poep", "Beiden"}

\* 'Opslaan luier': the record, then one diaper off the stock
\* the stock is decremented whatever the append returned
LuierSuccessIgnored(a) == ~a.raised

\* 'if success:' after add_record in babytracker_7; in babytracker_5 the
\* statement after append_row, reached only when append_row did not raise
LuierSuccess(a) == a.success

OpslaanLuier(tijdstip, typ, opm, okRow, okCell) ==
    /\ typ \in LuierTypes
    /\ Len(sheet_baby) - 1 < MaxAdds
    /\ \E c \in {Cached(cache, now, older, sheet_baby, sheet_voorraad)} :
       \E a \in {IF rev = 7
                 THEN add_record(c.data.baby, sheet_baby, BabyOpen, "Luier",
                                 <<Stamp(tijdstip), Empty, Empty, Str(opm), Str(typ)>>
                                    \o Blanks(8), okRow)
                 ELSE append_row5(c.data.baby, sheet_baby, BabyOpen, "Luier",
                                  <<Stamp(tijdstip), Empty, Num(1), Str(opm), Str(typ)>>, okRow)} :
       \E u \in {IF LuierSuccess(a)
                 THEN update_voorraad(c.data.voorraad, sheet_voorraad, VoorraadOpen,
                                      "Luiers", 0 - 1, okCell)
                 ELSE Result(c.data.voorraad, sheet_voorraad, << >>, NoCall, FALSE)} :
          /\ cache' = c
          /\ baby_records' = c.data.baby
          /\ sheet_baby' = a.sheet
          /\ submitted' = IF a.success
                          THEN Append(submitted,
                                      Fields("Luier", Stamp(tijdstip),
                                             ("Opmerking" :> Str(opm)) @@ ("Type Luier" :> Str(typ))
                                             @@ (IF rev = 5 THEN "Hoeveelheid" :> Num(1)
                                                 ELSE "Opmerking" :> Str(opm))))
                          ELSE submitted
          /\ voorraad' = u.voorraad
          /\ sheet_voorraad' = u.sheet
          /\ out' = LET o == Outcome("luier", <<"Luiers", 0 - 1>>,
                                      a.msgs \o u.msgs \o
                                         (IF rev = 5 /\ ~a.raised /\ ~u.raised
                                          THEN <<"success">> ELSE << >>),
                                      a.calls \o u.calls, a.raised \/ u.raised)
                     IN  Returned(IF LuierSuccess(a) THEN Updated(o, u) ELSE o, a)
    /\ UNCHANGED <<rev, opened, now, older, sheet_bijvulling, active_slaap_session,
                   active_voeding_session, slaap_opmerking, voeding_opmerking>>

(***************************************************************************)
(* Slaap tab.                                                              *)
(***************************************************************************)
\* PyRound rounding a tie upwards
PyRoundHalfUp(seconds) == (seconds + 30) \div 60

\* round(x) for x = seconds / 60: Python rounds a tie to the even neighbour
PyRound(seconds) ==
    LET q == seconds \div 60
        r == seconds % 60
    IN  IF r * 2 < 60 THEN q
        ELSE IF r * 2 > 60 THEN q + 1
        ELSE IF q % 2 = 0 THEN q ELSE q + 1

\* the script run that follows an on_click callback: load_data() again
Rerun(sb) ==
    \E c \in {Cached(cache, now, older, sb, sheet_voorraad)} :
        /\ cache' = c
        /\ baby_records' = c.data.baby
        /\ voorraad' = c.data.voorraad

\* StartSlaap without the test for a running session
StartSlaapRestart ==
    /\ rev = 7
    /\ active_slaap_session' = <<[start_time |-> now]>>
    /\ out' = Outcome("start_slaap", << >>, <<"toast">>, << >>, FALSE)
    /\ Rerun(sheet_baby)
    /\ UNCHANGED <<rev, opened, now, older, sheet_baby, sheet_voorraad, sheet_bijvulling,
                   active_voeding_session, slaap_opmerking, voeding_opmerking, submitted>>

\* start_slaap_callback
StartSlaap ==
    /\ rev = 7
    /\ IF active_slaap_session = << >>
       THEN /\ active_slaap_session' = <<[start_time |-> now]>>
            /\ out' = Outcome("start_slaap", << >>, <<"toast">>, << >>, FALSE)
       ELSE /\ active_slaap_session' = active_slaap_session
            /\ out' = Outcome("start_slaap", << >>, << >>, << >>, FALSE)
    /\ Rerun(sheet_baby)
    /\ UNCHANGED <<rev, opened, now, older, sheet_baby, sheet_voorraad, sheet_bijvulling,
                   active_voeding_session, slaap_opmerking, voeding_opmerking, submitted>>

\* StopSlaap clearing the note before it looks for a session
StopSlaapClearsNote(okRow, keep) ==
    /\ rev = 7
    /\ IF active_slaap_session = << >>
       THEN /\ out' = Outcome("stop_slaap", << >>, <<"warning">>, << >>, FALSE)
            /\ Rerun(sheet_baby)
            /\ slaap_opmerking' = ""
            /\ UNCHANGED <<sheet_baby, active_slaap_session, submitted>>
       ELSE LET sessie == active_slaap_session[1]
                seconds == now - sessie.start_time
                start_dt == Strftime(sessie.start_time)
                eind_dt == Strftime(now)
                opm == slaap_opmerking
            IN  /\ Len(sheet_baby) - 1 < MaxAdds
                /\ \E a \in {add_record(baby_records, sheet_baby, BabyOpen, "Slaap",
                                        <<start_dt, eind_dt, Num(PyRound(seconds)), Str(opm)>>
                                           \o Blanks(10), okRow)} :
                      /\ sheet_baby' = a.sheet
                      /\ submitted' = IF a.success
                                      THEN Append(submitted,
                                                  Fields("Slaap", start_dt,
                                                         ("Eindtijd" :> eind_dt)
                                                         @@ ("Hoeveelheid" :> Num(PyRound(seconds)))
                                                         @@ ("Opmerking" :> Str(opm))))
                                      ELSE submitted
                      /\ out' = Returned(Outcome("stop_slaap", << >>, a.msgs \o <<"toast">>,
                                                 a.calls, FALSE), a)
                      /\ Rerun(a.sheet)
                /\ active_slaap_session' = << >>
                /\ slaap_opmerking' = IF keep THEN slaap_opmerking ELSE ""
    /\ UNCHANGED <<rev, opened, now, older, sheet_voorraad, sheet_bijvulling,
                   active_voeding_session, voeding_opmerking>>

\* stop_slaap_callback, which runs with the tables of the previous script
\* run; keep: the Opmerking widget of the next run still returns the text it
\* held, rather than its new default ''
StopSlaap(okRow, keep) ==
    /\ rev = 7
    /\ IF active_slaap_session = << >>
       THEN /\ out' = Outcome("stop_slaap", << >>, <<"warning">>, << >>, FALSE)
            /\ Rerun(sheet_baby)
            /\ UNCHANGED <<sheet_baby, active_slaap_session, slaap_opmerking, submitted>>
       ELSE LET sessie == active_slaap_session[1]
                seconds == now - sessie.start_time
                start_dt == Strftime(sessie.start_time)
                eind_dt == Strftime(now)
                opm == slaap_opmerking
            IN  /\ Len(sheet_baby) - 1 < MaxAdds
                /\ \E a \in {add_record(baby_records, sheet_baby, BabyOpen, "Slaap",
                                        <<start_dt, eind_dt, Num(PyRound(seconds)), Str(opm)>>
                                           \o Blanks(10), okRow)} :
                      /\ sheet_baby' = a.sheet
                      /\ submitted' = IF a.success
                                      THEN Append(submitted,
                                                  Fields("Slaap", start_dt,
                                                         ("Eindtijd" :> eind_dt)
                                                         @@ ("Hoeveelheid" :> Num(PyRound(seconds)))
                                                         @@ ("Opmerking" :> Str(opm))))
                                      ELSE submitted
                      /\ out' = Returned(Outcome("stop_slaap", << >>, a.msgs \o <<"toast">>,
                                                 a.calls, FALSE), a)
                      /\ Rerun(a.sheet)
                /\ active_slaap_session' = << >>
                /\ slaap_opmerking' = IF keep THEN slaap_opmerking ELSE ""
    /\ UNCHANGED <<rev, opened, now, older, sheet_voorraad, sheet_bijvulling,
                   active_voeding_session, voeding_opmerking>>

\* st.text_input("Opmerking", ..., key="s_opm"): the user types a note
TypSlaapOpmerking(text) ==
    /\ rev = 7
    /\ text # slaap_opmerking
    /\ slaap_opmerking' = text
    /\ out' = Outcome("typ_slaap", << >>, << >>, << >>, FALSE)
    /\ Rerun(sheet_baby)
    /\ UNCHANGED <<rev, opened, now, older, sheet_baby, sheet_voorraad, sheet_bijvulling,
                   active_slaap_session, active_voeding_session, voeding_opmerking, submitted>>

\* 'Handmatig opslaan' (babytracker_7, shown while no sleep session is
\* active) and 'Opslaan slaap' (babytracker_5)
OpslaanSlaap(start_manual, duur_manual, opm_manual, okRow) ==
    /\ Len(sheet_baby) - 1 < MaxRows
    /\ active_slaap_session = << >>
    /\ rev = 5 => duur_manual >= 1
    /\ \E c \in {Cached(cache, now, older, sheet_baby, sheet_voorraad)} :
       LET start_dt == Stamp(start_manual)
           eind_dt == Stamp(start_manual + duur_manual)
           values == <<start_dt, eind_dt, Num(duur_manual), Str(opm_manual)>>
       IN  \E a \in {IF rev = 7
                     THEN add_record(c.data.baby, sheet_baby, BabyOpen, "Slaap",
                                     values \o Blanks(10), okRow)
                     ELSE append_row5(c.data.baby, sheet_baby, BabyOpen, "Slaap", values, okRow)} :
              /\ cache' = c
              /\ baby_records' = c.data.baby
              /\ voorraad' = c.data.voorraad
              /\ sheet_baby' = a.sheet
              /\ submitted' = IF a.success
                              THEN Append(submitted,
                                          Fields("Slaap", start_dt,
                                                 ("Eindtijd" :> eind_dt)
                                                 @@ ("Hoeveelheid" :> Num(duur_manual))
                                                 @@ ("Opmerking" :> Str(opm_manual))))
                              ELSE submitted
              /\ out' = Returned(Outcome("slaap", << >>,
                                a.msgs \o (IF rev = 5 /\ ~a.raised THEN <<"success">> ELSE << >>),
                                a.calls, a.raised), a)
    /\ UNCHANGED <<rev, opened, now, older, sheet_voorraad, sheet_bijvulling,
                   active_slaap_session, active_voeding_session, slaap_opmerking,
                   voeding_opmerking>>

(***************************************************************************)
(* Voeding tab: the live timer.                                            *)
(***************************************************************************)
\* start_voeding(borstzijde)
StartVoeding(borstzijde) ==
    /\ rev = 7
    /\ IF active_voeding_session # << >>
       THEN /\ active_voeding_session' = active_voeding_session
            /\ out' = Outcome("start_voeding", << >>, <<"warning">>, << >>, FALSE)
       ELSE /\ active_voeding_session' = <<[start_time |-> now, borst |-> borstzijde]>>
            /\ out' = Outcome("start_voeding", << >>, <<"toast">>, << >>, FALSE)
    /\ Rerun(sheet_baby)
    /\ UNCHANGED <<rev, opened, now, older, sheet_baby, sheet_voorraad, sheet_bijvulling,
                   active_slaap_session, slaap_opmerking, voeding_opmerking, submitted>>

\* stop_voeding
\* the timer row with the elapsed minutes as its amount and no end time
VoedingTimerValuesAsSleep(sessie, t, opm) ==
    <<Strftime(sessie.start_time), Empty, Num((t - sessie.start_time) \div 60), Str(opm),
      Empty, Str(sessie.borst), Empty, Empty, Str("Borst")>> \o Blanks(4)

\* the values stop_voeding passes to add_record
VoedingTimerValues(sessie, t, opm) ==
    <<Strftime(sessie.start_time), Strftime(t), Empty, Str(opm), Empty,
      Str(sessie.borst), Empty, Empty, Str("Borst")>> \o Blanks(4)

StopVoeding(okRow, keep) ==
    /\ rev = 7
    /\ IF active_voeding_session = << >>
       THEN /\ out' = Outcome("stop_voeding", << >>, <<"warning">>, << >>, FALSE)
            /\ Rerun(sheet_baby)
            /\ UNCHANGED <<sheet_baby, active_voeding_session, voeding_opmerking, submitted>>
       ELSE LET sessie == active_voeding_session[1]
                start_dt == Strftime(sessie.start_time)
                eind_dt == Strftime(now)
                opm == voeding_opmerking
            IN  /\ Len(sheet_baby) - 1 < MaxAdds
                /\ \E a \in {add_record(baby_records, sheet_baby, BabyOpen, "Voeding",
                                        VoedingTimerValues(sessie, now, opm), okRow)} :
                      /\ sheet_baby' = a.sheet
                      /\ submitted' = IF a.success
                                      THEN Append(submitted,
                                                  Fields("Voeding", start_dt,
                                                         ("Eindtijd" :> eind_dt)
                                                         @@ ("Opmerking" :> Str(opm))
                                                         @@ ("Borst" :> Str(sessie.borst))
                                                         @@ ("Voeding_type" :> Str("Borst"))))
                                      ELSE submitted
                      /\ out' = Returned(Outcome("stop_voeding", << >>, a.msgs \o <<"toast">>,
                                                 a.calls, FALSE), a)
                      /\ Rerun(a.sheet)
                /\ active_voeding_session' = << >>
                /\ voeding_opmerking' = IF keep THEN voeding_opmerking ELSE ""
    /\ UNCHANGED <<rev, opened, now, older, sheet_voorraad, sheet_bijvulling,
                   active_slaap_session, slaap_opmerking>>

\* st.text_input("Opmerking", ..., key="voeding_opm_live")
TypVoedingOpmerking(text) ==
    /\ rev = 7
    /\ text # voeding_opmerking
    /\ voeding_opmerking' = text
    /\ out' = Outcome("typ_voeding", << >>, << >>, << >>, FALSE)
    /\ Rerun(sheet_baby)
    /\ UNCHANGED <<rev, opened, now, older, sheet_baby, sheet_voorraad, sheet_bijvulling,
                   active_slaap_session, active_voeding_session, slaap_opmerking, submitted>>

\* the manual row with its start time repeated as end time
VoedingValuesWithEnd(start_dt, hoeveelheid, opm, borst, kolven, fles, voeding_type) ==
    <<start_dt, start_dt, hoeveelheid, opm, Empty, borst, kolven, fles, voeding_type>>
       \o Blanks(4)

\* the values 'Handmatig opslaan' passes to add_record
VoedingValues(start_dt, hoeveelheid, opm, borst, kolven, fles, voeding_type) ==
    <<start_dt, Empty, hoeveelheid, opm, Empty, borst, kolven, fles, voeding_type>>
       \o Blanks(4)

\* 'Handmatig opslaan' of the Voeding tab (shown while no feeding session is
\* active): borst, kolven, fles and hoeveelheid start as '', '', '', 0 and the
\* widgets of the chosen type fill some of them in
OpslaanVoeding(voeding_type, tijdstip, zijde, soort, ml, opm, okRow) ==
    /\ rev = 7
    /\ Len(sheet_baby) - 1 < MaxAdds
    /\ active_voeding_session = << >>
    /\ \E c \in {Cached(cache, now, older, sheet_baby, sheet_voorraad)} :
       LET borst == IF voeding_type \in {"Borst", "Kolven"} THEN Str(zijde) ELSE Empty
           kolven == IF voeding_type = "Kolven" THEN Num(ml) ELSE Empty
           fles == IF voeding_type = "Fles" THEN Str(soort) ELSE Empty
           hoeveelheid == IF voeding_type = "Fles" THEN Num(ml)
                          ELSE IF voeding_type = "Borst" THEN Num(0) ELSE Empty
           start_dt == Stamp(tijdstip)
       IN  \E a \in {add_record(c.data.baby, sheet_baby, BabyOpen, "Voeding",
                                VoedingValues(start_dt, hoeveelheid, Str(opm), borst,
                                              kolven, fles, Str(voeding_type)), okRow)} :
              /\ cache' = c
              /\ baby_records' = c.data.baby
              /\ voorraad' = c.data.voorraad
              /\ sheet_baby' = a.sheet
              /\ submitted' = IF a.success
                              THEN Append(submitted,
                                          Fields("Voeding", start_dt,
                                                 ("Hoeveelheid" :> hoeveelheid)
                                                 @@ ("Opmerking" :> Str(opm))
                                                 @@ ("Borst" :> borst)
                                                 @@ ("Kolven" :> kolven)
                                                 @@ ("Fles" :> fles)
                                                 @@ ("Voeding_type" :> Str(voeding_type))))
                              ELSE submitted
              /\ out' = Returned(Outcome("voeding", << >>, a.msgs \o <<"success">>,
                                         a.calls, FALSE), a)
    /\ UNCHANGED <<rev, opened, now, older, sheet_voorraad, sheet_bijvulling,
                   active_slaap_session, active_voeding_session, slaap_opmerking,
                   voeding_opmerking>>

(***************************************************************************)
(* Gezondheid tab.                                                         *)
(***************************************************************************)
\* 'Opslaan gezondheid': the three numbers are floats, given in tenths
OpslaanGezondheid(gewicht, lengte, temp, opm, okRow) ==
    /\ rev = 7
    /\ Len(sheet_baby) - 1 < MaxAdds
    /\ \E c \in {Cached(cache, now, older, sheet_baby, sheet_voorraad)} :
       LET start_dt == Strftime(now)
       IN  \E a \in {add_record(c.data.baby, sheet_baby, BabyOpen, "Gezondheid",
                                <<start_dt>> \o Blanks(8)
                                   \o <<Dec(gewicht), Dec(lengte), Dec(temp), Str(opm)>>,
                                okRow)} :
              /\ cache' = c
              /\ baby_records' = c.data.baby
              /\ voorraad' = c.data.voorraad
              /\ sheet_baby' = a.sheet
              /\ submitted' = IF a.success
                              THEN Append(submitted,
                                          Fields("Gezondheid", start_dt,
                                                 ("Gewicht" :> Dec(gewicht))
                                                 @@ ("Lengte" :> Dec(lengte))
                                                 @@ ("Temperatuur" :> Dec(temp))
                                                 @@ ("Opmerkingen / ziekten" :> Str(opm))))
                              ELSE submitted
              /\ out' = Returned(Outcome("gezondheid", << >>, a.msgs, a.calls, FALSE), a)
    /\ UNCHANGED <<rev, opened, now, older, sheet_voorraad, sheet_bijvulling,
                   active_slaap_session, active_voeding_session, slaap_opmerking,
                   voeding_opmerking>>

(***************************************************************************)
(* Bewerk records tab (babytracker_7).                                     *)
(***************************************************************************)
Edited(sheet, msgs, calls, success) ==
    [sheet |-> sheet, msgs |-> msgs, calls |-> calls, success |-> success]

\* the sheet after the first n pairs of updates were written to one row
RECURSIVE ApplyUpdates(_, _, _, _)
ApplyUpdates(sheet, row_index, updates, n) ==
    IF n = 0 THEN sheet
    ELSE UpdateCell(ApplyUpdates(sheet, row_index, updates, n - 1),
                    row_index, updates[n][1], updates[n][2])

\* edit_record as a transaction: a failing call undoes the earlier ones
edit_recordRollback(sheet, avail, row_index, updates, fail_at) ==
    IF ~avail \/ fail_at # 0
    THEN Edited(sheet, <<"error">>,
                [k \in 1..(IF avail THEN fail_at ELSE 0) |->
                    [fn |-> "update_cell", sheet |-> "BabyRecords", row |-> row_index,
                     col |-> updates[k][1], value |-> updates[k][2], ok |-> k # fail_at]],
                FALSE)
    ELSE Edited(ApplyUpdates(sheet, row_index, updates, Len(updates)), <<"success">>,
                [k \in 1..Len(updates) |->
                    [fn |-> "update_cell", sheet |-> "BabyRecords", row |-> row_index,
                     col |-> updates[k][1], value |-> updates[k][2], ok |-> TRUE]],
                TRUE)

\* edit_record(row_index, updates): updates is the dict as a sequence of
\* <<col, val, field>> in insertion order, field being the field whose widget
\* gave val (edit_record itself sees col and val only); fail_at = k > 0: the k-th update_cell call
\* raises, fail_at = 0: none does
edit_record(sheet, avail, row_index, updates, fail_at) ==
    IF ~avail
    THEN Edited(sheet, <<"error">>, << >>, FALSE)
    ELSE LET tried == IF fail_at = 0 THEN Len(updates) ELSE fail_at
             written == IF fail_at = 0 THEN Len(updates) ELSE fail_at - 1
             calls == [k \in 1..tried |->
                          [fn |-> "update_cell", sheet |-> "BabyRecords", row |-> row_index,
                           col |-> updates[k][1], value |-> updates[k][2], ok |-> k # fail_at]]
         IN  Edited(ApplyUpdates(sheet, row_index, updates, written),
                    IF fail_at = 0 THEN <<"success">> ELSE <<"error">>,
                    calls, fail_at = 0)

\* int(x) of a loaded float
IntOf(f) == f[2] \div 10

\* record i of the snapshot can be picked in 'Selecteer record'
Kiesbaar(c, record_type, i) ==
    /\ i \in 1..Len(c.data.baby.rows)
    /\ c.data.baby.rows[i]["Type"] = Str(record_type)
    /\ c.data.baby.rows[i]["Starttijd"] # NaT

\* df_type[df_type['Starttijd'].dt.strftime(..) == selected].index[0]: the
\* option picked is the start of record i, to the minute; the records of the
\* type with that start are the candidates, and which of them comes first
\* after sort_values is not fixed
Gevonden(c, record_type, i) ==
    {n \in 1..Len(c.data.baby.rows) :
        /\ c.data.baby.rows[n]["Type"] = Str(record_type)
        /\ c.data.baby.rows[n]["Starttijd"] = c.data.baby.rows[i]["Starttijd"]}

\* the 'Opslaan wijziging ...' button: sheet_row = idx + 2, then edit_record;
\* n is the record found (idx = n - 1), i the record picked
Wijzig(c, op, n, i, updates, fail_at) ==
    /\ fail_at \in 0..Len(updates)
    /\ \E e \in {edit_record(sheet_baby, BabyOpen, (n - 1) + 2, updates, fail_at)} :
          /\ cache' = c
          /\ baby_records' = c.data.baby
          /\ voorraad' = c.data.voorraad
          /\ sheet_baby' = e.sheet
          /\ out' = [Outcome(op, <<(n - 1) + 2>>, e.msgs, e.calls, FALSE)
                     EXCEPT !.edited = <<[success |-> e.success, updates |-> updates,
                                          selected |-> i]>>]
    /\ UNCHANGED <<rev, opened, now, older, sheet_voorraad, sheet_bijvulling,
                   active_slaap_session, active_voeding_session, slaap_opmerking,
                   voeding_opmerking, submitted>>

\* 'Opslaan wijziging slaap'; st.number_input('Duur (min)', int(...)) makes
\* the stored amount the minimum of the widget
BewerkSlaap(i, start, duur, opm, fail_at) ==
    /\ rev = 7
    /\ older = 0
    /\ \E c \in {Cached(cache, now, older, sheet_baby, sheet_voorraad)} :
          /\ Kiesbaar(c, "Slaap", i)
          /\ \E n \in Gevonden(c, "Slaap", i) :
                /\ duur >= IntOf(c.data.baby.rows[n]["Hoeveelheid"])
                /\ Wijzig(c, "bewerk_slaap", n, i,
                          <<<<3, Stamp(start), "Starttijd">>,
                            <<4, Stamp(start + duur), "Eindtijd">>,
                            <<5, Num(duur), "Hoeveelheid">>,
                            <<6, Str(opm), "Opmerking">>>>, fail_at)

\* 'Opslaan wijziging voeding'
BewerkVoeding(i, start, hoeveelheid, borst, kolven, fles, opm, fail_at) ==
    /\ rev = 7
    /\ older = 0
    /\ \E c \in {Cached(cache, now, older, sheet_baby, sheet_voorraad)} :
          /\ Kiesbaar(c, "Voeding", i)
          /\ \E n \in Gevonden(c, "Voeding", i) :
                /\ hoeveelheid >= IntOf(c.data.baby.rows[n]["Hoeveelheid"])
                /\ Wijzig(c, "bewerk_voeding", n, i,
                          <<<<3, Stamp(start), "Starttijd">>,
                            <<5, Num(hoeveelheid), "Hoeveelheid">>,
                            <<7, Str(borst), "Borst">>, <<8, Str(kolven), "Kolven">>,
                            <<9, Str(fles), "Fles">>, <<6, Str(opm), "Opmerking">>>>, fail_at)

EditLuierTypes == <<"Plas", "Poep", "Beiden">>

\* 'Opslaan wijziging luier'; ['Plas','Poep','Beiden'].index(...) raises
\* ValueError for any other stored kind, before the form is drawn
BewerkLuier(i, start, typ, opm, fail_at) ==
    /\ rev = 7
    /\ older = 0
    /\ \E c \in {Cached(cache, now, older, sheet_baby, sheet_voorraad)} :
          /\ Kiesbaar(c, "Luier", i)
          /\ \E n \in Gevonden(c, "Luier", i) :
                IF \E k \in 1..Len(EditLuierTypes) :
                      c.data.baby.rows[n]["Type Luier"] = Str(EditLuierTypes[k])
                THEN /\ \E k \in 1..Len(EditLuierTypes) : typ = EditLuierTypes[k]
                     /\ Wijzig(c, "bewerk_luier", n, i,
                               <<<<3, Stamp(start), "Starttijd">>, <<6, Str(opm), "Opmerking">>,
                                 <<7, Str(typ), "Type Luier">>>>, fail_at)
                ELSE /\ cache' = c
                     /\ baby_records' = c.data.baby
                     /\ voorraad' = c.data.voorraad
                     /\ out' = Outcome("bewerk_luier", <<(n - 1) + 2>>, << >>, << >>, TRUE)
                     /\ UNCHANGED <<rev, opened, now, older, sheet_baby, sheet_voorraad,
                                    sheet_bijvulling, active_slaap_session,
                                    active_voeding_session, slaap_opmerking,
                                    voeding_opmerking, submitted>>

\* 'Opslaan wijziging gezondheid'; each number_input has the stored value as
\* its minimum
BewerkGezondheid(i, gewicht, lengte, temp, opm, fail_at) ==
    /\ rev = 7
    /\ older = 0
    /\ \E c \in {Cached(cache, now, older, sheet_baby, sheet_voorraad)} :
          /\ Kiesbaar(c, "Gezondheid", i)
          /\ \E n \in Gevonden(c, "Gezondheid", i) :
                /\ gewicht >= c.data.baby.rows[n]["Gewicht"][2]
                /\ lengte >= c.data.baby.rows[n]["Lengte"][2]
                /\ temp >= c.data.baby.rows[n]["Temperatuur"][2]
                /\ Wijzig(c, "bewerk_gezondheid", n, i,
                          <<<<6, Dec(gewicht), "Gewicht">>, <<7, Dec(lengte), "Lengte">>,
                            <<8, Dec(temp), "Temperatuur">>,
                            <<9, Str(opm), "Opmerkingen / ziekten">>>>, fail_at)

\* a script run that only shows the page
Herlaad ==
    /\ out' = Outcome("herlaad", << >>, << >>, << >>, FALSE)
    /\ Rerun(sheet_baby)
    /\ UNCHANGED <<rev, opened, now, older, sheet_baby, sheet_voorraad, sheet_bijvulling,
                   active_slaap_session, active_voeding_session, slaap_opmerking,
                   voeding_opmerking, submitted>>

\* a script run whose load_data() call reads the store and get_all_records
\* of worksheet number k raises: nothing around the call catches it, the
\* entry is not cached and the run ends at the call
LaadMislukt(k) ==
    /\ ~(cache.valid /\ now - cache.at < TTL)
    /\ k \in 1..opened
    /\ out' = Outcome("herlaad", << >>, << >>,
                      <<[fn |-> "get_all_records",
                         sheet |-> <<"BabyRecords", "Voorraad", "VoorraadBijvulling">>[k],
                         row |-> 0, col |-> 0, value |-> Empty, ok |-> FALSE]>>, TRUE)
    /\ UNCHANGED <<rev, opened, now, older, sheet_baby, sheet_voorraad, sheet_bijvulling,
                   cache, baby_records, voorraad, active_slaap_session,
                   active_voeding_session, slaap_opmerking, voeding_opmerking, submitted>>

(***************************************************************************)
(* Selecting a view while the records table is empty (babytracker_7).      *)
(***************************************************************************)
TAB_NAMES == <<"Dashboard", "Slaap", "Voeding", "Luiers", "Gezondheid", "Voorraad",
               "Analyse", "Data", "Bewerk records">>

\* views that index baby_records['Type'] or baby_records['Starttijd'] before
\* any test of baby_records.empty: an empty DataFrame has no columns (KeyError)
IndexesRecords == {"Dashboard", "Data", "Bewerk records"}

\* a script run that draws the selected view, no button pressed; the
\* Dashboard draws its low-stock banner first (shown: the products it lists)
ToonLeeg(selected_tab) ==
    /\ rev = 7
    /\ \E k \in 1..Len(TAB_NAMES) : selected_tab = TAB_NAMES[k]
    /\ \E c \in {Cached(cache, now, older, sheet_baby, sheet_voorraad)} :
          /\ LenRecords(c.data.baby) = 0
          /\ cache' = c
          /\ baby_records' = c.data.baby
          /\ voorraad' = c.data.voorraad
          /\ out' = [Outcome("tab", <<selected_tab>>,
                             IF selected_tab = "Analyse"
                                   \/ (selected_tab = "Voorraad" /\ c.data.voorraad = << >>)
                             THEN <<"info">>
                             ELSE IF selected_tab = "Dashboard" /\ Kritiek(c.data.voorraad) # << >>
                             THEN <<"warning">> ELSE << >>,
                             << >>, selected_tab \in IndexesRecords)
                      EXCEPT !.shown = IF selected_tab = "Dashboard"
                                       THEN Kritiek(c.data.voorraad) ELSE << >>]
    /\ UNCHANGED <<rev, opened, now, older, sheet_baby, sheet_voorraad, sheet_bijvulling,
                   active_slaap_session, active_voeding_session, slaap_opmerking,
                   voeding_opmerking, submitted>>

(***************************************************************************)
(* The inventory list with its colour code (Voorraad tab in babytracker_7, *)
(* Dashboard tab in babytracker_5).                                        *)
(***************************************************************************)
ToonVoorraad ==
    /\ \E c \in {Cached(cache, now, older, sheet_baby, sheet_voorraad)} :
       /\ cache' = c
       /\ baby_records' = c.data.baby
       /\ voorraad' = c.data.voorraad
       /\ out' = [Outcome("toon", << >>,
                          IF rev = 7 /\ c.data.voorraad = << >> THEN <<"info">> ELSE << >>,
                          << >>, FALSE)
                  EXCEPT !.shown = [i \in 1..Len(c.data.voorraad) |-> Kleur(c.data.voorraad[i])]]
    /\ UNCHANGED <<rev, opened, now, older, sheet_baby, sheet_voorraad, sheet_bijvulling,
                   active_slaap_session, active_voeding_session, slaap_opmerking,
                   voeding_opmerking, submitted>>

(***************************************************************************)
(* The inventory, on its own.                                              *)
(***************************************************************************)
Minimum == 1
Stocks == {0, Minimum + 1}

InitTables ==
    {<<VoorraadHeader>>}
    \cup {<<VoorraadHeader, ProductRow("Luiers", c, Minimum)>> : c \in Stocks}
    \cup {<<VoorraadHeader, ProductRow("Doekjes", Minimum + 1, Minimum)>>}
    \cup {<<VoorraadHeader, ProductRow("Doekjes", Minimum + 1, Minimum),
            ProductRow("Luiers", c, Minimum)>> : c \in Stocks}

\* every table with all worksheets open; one table with fewer of them open
InitVoorraad ==
    \E r \in {5, 7} :
        \/ \E sv \in InitTables : Start(r, 3, 0, sv)
        \/ \E o \in 0..2 :
              Start(r, o, 0, <<VoorraadHeader, ProductRow("Luiers", Minimum + 1, Minimum)>>)

NextVoorraad ==
    \/ Tick(TTL, Windows * TTL)
    \/ \E p \in {"", "Luiers", "Doekjes"}, k \in 1..MaxAmount, okCell \in BOOLEAN, okLog \in BOOLEAN :
          Bijvullen(p, k, okCell, okLog)
    \/ \E p \in {"", "Luiers", "Doekjes"}, k \in 1..MaxStock, okCell \in BOOLEAN :
          Verminderen(p, k, okCell)
    \/ ToonVoorraad
    \/ \E typ \in {"Nat", "Plas"}, okRow \in BOOLEAN, okCell \in BOOLEAN :
          OpslaanLuier(now \div 60, typ, "", okRow, okCell)

SpecVoorraad == InitVoorraad /\ [][NextVoorraad]_vars

MaxCell == 8    \* largest stock and minimum drawn for the colour code

InitKleur ==
    \E r \in {5, 7}, cur \in (0 - 1)..MaxCell, minv \in (0 - 1)..MaxCell :
        Start(r, 3, 0, <<VoorraadHeader, ProductRow("Luiers", cur, minv)>>)

NextKleur == ToonVoorraad

SpecKleur == InitKleur /\ [][NextKleur]_vars

(***************************************************************************)
(* The sleep timer, second by second.                                      *)
(***************************************************************************)
Notes == {"", "moe"}
OneProduct == <<VoorraadHeader, ProductRow("Luiers", Minimum + 1, Minimum)>>

\* a sleep session started at 0 has been running for any number of seconds
InitSlaap ==
    \E seconds \in 0..MaxTime :
        /\ rev = 7
        /\ opened = 3
        /\ now = seconds
        /\ older = 0
        /\ sheet_baby = <<BabyHeader>>
        /\ sheet_voorraad = OneProduct
        /\ sheet_bijvulling = <<BijvullingHeader>>
        /\ cache = [valid |-> TRUE, at |-> 0, data |-> load_data(0, <<BabyHeader>>, OneProduct)]
        /\ baby_records = cache.data.baby
        /\ voorraad = cache.data.voorraad
        /\ active_slaap_session = <<[start_time |-> 0]>>
        /\ active_voeding_session = << >>
        /\ slaap_opmerking = ""
        /\ voeding_opmerking = ""
        /\ submitted = << >>
        /\ out = Outcome("start_slaap", << >>, <<"toast">>, << >>, FALSE)

NextSlaap ==
    \/ StartSlaap
    \/ \E okRow \in BOOLEAN, keep \in BOOLEAN : StopSlaap(okRow, keep)
    \/ \E text \in Notes : TypSlaapOpmerking(text)

SpecSlaap == InitSlaap /\ [][NextSlaap]_vars

(***************************************************************************)
(* Both timers.                                                            *)
(***************************************************************************)
InitTimer == \E o \in {0, 3} : Start(7, o, 0, OneProduct)

NextTimer ==
    \/ Tick(TTL, Windows * TTL)
    \/ StartSlaap
    \/ \E okRow \in BOOLEAN, keep \in BOOLEAN : StopSlaap(okRow, keep)
    \/ \E text \in Notes : TypSlaapOpmerking(text)
    \/ \E borstzijde \in {"Links", "Rechts"} : StartVoeding(borstzijde)
    \/ \E okRow \in BOOLEAN, keep \in BOOLEAN : StopVoeding(okRow, keep)
    \/ \E text \in Notes : TypVoedingOpmerking(text)

SpecTimer == InitTimer /\ [][NextTimer]_vars

(***************************************************************************)
(* Adding records and reading them back.                                   *)
(***************************************************************************)
InitRecords == \E r \in {5, 7}, n \in {0, ManyRows} : Start(r, 3, n, OneProduct)

NextRecords ==
    \/ Tick(TTL, Windows * TTL)
    \/ Herlaad
    \/ \E d \in 0..MaxAmount, opm \in Notes, okRow \in BOOLEAN :
          OpslaanSlaap(now \div 60, d, opm, okRow)
    \/ \E typ \in {"Nat", "Plas"}, opm \in Notes, okRow \in BOOLEAN, okCell \in BOOLEAN :
          OpslaanLuier(now \div 60, typ, opm, okRow, okCell)

SpecRecords == InitRecords /\ [][NextRecords]_vars

(***************************************************************************)
(* Every way babytracker_7 appends a record, one row at a time.            *)
(***************************************************************************)
InitRijen == \E o \in {0, 3} : Start(7, o, 0, OneProduct)

NextRijen ==
    \/ Tick(TTL, Windows * TTL)
    \/ StartSlaap
    \/ \E okRow \in BOOLEAN, keep \in BOOLEAN : StopSlaap(okRow, keep)
    \/ \E okRow \in BOOLEAN : OpslaanSlaap(now \div 60, MaxAmount, "", okRow)
    \/ StartVoeding("Links")
    \/ \E okRow \in BOOLEAN, keep \in BOOLEAN : StopVoeding(okRow, keep)
    \/ \E voeding_type \in {"Borst", "Fles", "Kolven"}, okRow \in BOOLEAN :
          OpslaanVoeding(voeding_type, now \div 60, "Links", "melk", MaxAmount, "", okRow)
    \/ \E okRow \in BOOLEAN, okCell \in BOOLEAN :
          OpslaanLuier(now \div 60, "Nat", "", okRow, okCell)
    \/ \E okRow \in BOOLEAN : OpslaanGezondheid(33, 500, 365, "", okRow)

SpecRijen == InitRijen /\ [][NextRijen]_vars

(***************************************************************************)
(* Records are added and then edited (babytracker_7).                      *)
(***************************************************************************)
InitBewerk == Start(7, 3, 0, OneProduct)

NextBewerk ==
    \/ Tick(TTL, Windows * TTL)
    \/ Herlaad
    \/ StartVoeding("Links")
    \/ StopVoeding(TRUE, FALSE)
    \/ OpslaanSlaap(now \div 60, 1, "", TRUE)
    \/ OpslaanLuier(now \div 60, "Nat", "", TRUE, TRUE)
    \/ OpslaanGezondheid(33, 500, 365, "", TRUE)
    \/ \E i \in 1..MaxRows, duur \in 1..MaxAmount, fail_at \in 0..4 :
          BewerkSlaap(i, now \div 60, duur, "moe", fail_at)
    \/ \E i \in 1..MaxRows, fail_at \in 0..6 :
          BewerkVoeding(i, now \div 60 + 1, 0, "Rechts", "", "", "moe", fail_at)
    \/ \E i \in 1..MaxRows, fail_at \in 0..3 :
          BewerkLuier(i, now \div 60, "Plas", "moe", fail_at)
    \/ \E i \in 1..MaxRows, fail_at \in 0..4 :
          BewerkGezondheid(i, 34, 500, 365, "koorts", fail_at)

SpecBewerk == InitBewerk /\ [][NextBewerk]_vars

(***************************************************************************)
(* Loading: any worksheets open, loads that succeed and loads that fail.   *)
(***************************************************************************)
InitLaden ==
    \E r \in {5, 7}, o \in 0..3, sv \in InitTables : Start(r, o, 0, sv)

NextLaden ==
    \/ Tick(TTL, Windows * TTL)
    \/ Herlaad
    \/ \E k \in 1..3 : LaadMislukt(k)
    \/ \E okRow \in BOOLEAN, okCell \in BOOLEAN :
          OpslaanLuier(now \div 60, "Nat", "", okRow, okCell)

SpecLaden == InitLaden /\ [][NextLaden]_vars

(***************************************************************************)
(* Views with no data (babytracker_7).                                     *)
(***************************************************************************)
InitWeergave ==
    \E o \in 0..3, sv \in InitTables : Start(7, o, 0, sv)

NextWeergave ==
    \/ Tick(TTL, Windows * TTL)
    \/ \E k \in 1..Len(TAB_NAMES) : ToonLeeg(TAB_NAMES[k])
    \/ ToonVoorraad

SpecWeergave == InitWeergave /\ [][NextWeergave]_vars

(***************************************************************************)
(* Loading a stored record whose numeric cells hold any kind of value.     *)
(***************************************************************************)
NumericFields == {"Hoeveelheid", "Gewicht", "Lengte", "Temperatuur"}

\* what get_all_records can return for a cell: an int, a float, a text with
\* a decimal comma, any other text, the empty string
NumericCells == {Num(MaxAmount), Dec(33), Comma(33), Str("abc"), Empty}

StoredRow(hoeveelheid, gewicht, lengte, temperatuur) ==
    <<FormatId(1), Str("Gezondheid"), Stamp(0), Empty, hoeveelheid>> \o Blanks(6)
       \o <<gewicht, lengte, temperatuur, Empty>>

InitParse ==
    \E r \in {5, 7}, h \in NumericCells, g \in NumericCells, t \in NumericCells :
        StartWith(r, 3, 0, <<BabyHeader, StoredRow(h, g, Dec(500), t)>>, OneProduct)

NextParse ==
    \/ Tick(TTL, Windows * TTL)
    \/ Herlaad

SpecParse == InitParse /\ [][NextParse]_vars

(***************************************************************************)
(* The low-stock banner and the colour code on one inventory row whose     *)
(* cells hold any kind of value (babytracker_7).                           *)
(***************************************************************************)
StockCells == {Num(0), Num(Minimum), Num(Minimum + 1), Dec(10 * Minimum + 5), Empty, Str("abc")}

InitBanner ==
    \E cur \in StockCells, minv \in StockCells :
        Start(7, 3, 0, <<VoorraadHeader, <<Str("Luiers"), cur, minv>>>>)

NextBanner ==
    \/ Tick(TTL, Windows * TTL)
    \/ ToonLeeg("Dashboard")
    \/ ToonVoorraad

SpecBanner == InitBanner /\ [][NextBanner]_vars

(***************************************************************************)
(* Properties.                                                             *)
(***************************************************************************)
CallsOn(o, sheetname) == {j \in 1..Len(o.calls) : o.calls[j].sheet = sheetname}

\* the last script run called update_voorraad
CalledUpdate(o) == o.update # << >>

StockOf(vr, p) == NumOrZero(vr[Min(Mask(vr, p))]["Actuele voorraad"])

\* C1: for every pair (current stock, minimum stock) of integers the status
\* shown is red (critical) iff current <= minimum, orange (low) iff
\* minimum < current <= minimum + 2, and green (ok) otherwise.
C1_StatusFollowsThresholds ==
    out.op = "toon" =>
        \A i \in 1..Len(voorraad) :
            LET current == voorraad[i]["Actuele voorraad"][2]
                minimum == voorraad[i]["Minimum voorraad"][2]
            IN  /\ out.shown[i] = "red" <=> current <= minimum
                /\ out.shown[i] = "orange" <=> (minimum < current /\ current <= minimum + 2)
                /\ out.shown[i] = "green" <=> ~(current <= minimum + 2)

\* C1, its examples: (5,5) is red, (6,5) and (7,5) are orange, (8,5) is green
C1_Examples ==
    out.op = "toon" /\ Len(voorraad) = 1 /\ voorraad[1]["Minimum voorraad"] = Num(5) =>
        /\ voorraad[1]["Actuele voorraad"] = Num(5) => out.shown[1] = "red"
        /\ voorraad[1]["Actuele voorraad"] \in {Num(6), Num(7)} => out.shown[1] = "orange"
        /\ voorraad[1]["Actuele voorraad"] = Num(8) => out.shown[1] = "green"

C1_Holds == C1_StatusFollowsThresholds /\ C1_Examples

C1_Witness ==
    /\ out.op = "toon"
    /\ voorraad = GetAllRecords(<<VoorraadHeader, ProductRow("Luiers", 7, 5)>>)
    /\ out.shown = <<"orange">>

\* C2: after any sequence of update_voorraad calls the current stock of every
\* product is >= 0, in the store and in the in-memory table.
C2_StockNeverNegative ==
    /\ \A i \in 2..Len(sheet_voorraad) : NumOrZero(sheet_voorraad[i][2]) >= 0
    /\ \A i \in 1..Len(voorraad) : NumOrZero(voorraad[i]["Actuele voorraad"]) >= 0

\* C3 (babytracker_7): when the product is in the inventory table and the store
\* accepts the write, update_voorraad(product, delta) makes exactly one store
\* call on the inventory, and afterwards the sheet differs from before in one
\* cell only: the stock cell of the product's row, which holds
\* max(0, current_stock + delta), current_stock being the stock in the table
\* load_data returned to this script run.
C3_Step ==
    LET o == out'
        p == o.args[1]
        delta == o.args[2]
        table == cache'.data.voorraad
        row == Min(Mask(table, p)) + 1
    IN  (/\ rev = 7
         /\ now' = now
         /\ CalledUpdate(o)
         /\ VoorraadOpen
         /\ Mask(table, p) # {}
         /\ \A j \in CallsOn(o, "Voorraad") : o.calls[j].ok)
        => /\ Cardinality(CallsOn(o, "Voorraad")) = 1
           /\ sheet_voorraad[row][1] = Str(p)
           /\ sheet_voorraad' =
                [sheet_voorraad EXCEPT ![row] =
                    [@ EXCEPT ![2] = Num(Max({0, StockOf(table, p) + delta}))]]

C3_OneCellClamped == [][C3_Step]_vars

\* a diaper was saved with Luiers, in the second row, already at 0: the cell
\* of row 3 is written with 0
C3_Witness ==
    /\ rev = 7
    /\ out.op = "luier"
    /\ Len(out.calls) = 2
    /\ out.calls[2].ok
    /\ out.calls[2].row = 3
    /\ out.calls[2].value = Num(0)

\* C4: when the product matches no row of the inventory table, update_voorraad
\* reports an error, writes nothing to the store, leaves the in-memory table
\* as it was and returns without raising.
C4_UnknownProductIsReported ==
    (CalledUpdate(out) /\ Mask(cache.data.voorraad, out.args[1]) = {}) =>
        /\ ~out.update[1].raised
        /\ out.update[1].calls = << >>
        /\ voorraad = cache.data.voorraad
        /\ \E j \in 1..Len(out.update[1].msgs) : out.update[1].msgs[j] \in {"error", "warning"}

LastRow(sheet) == sheet[Len(sheet)]

\* the step is a script run (the clock stands still while the script runs)
ScriptRun(op) == now' = now /\ out'.op = op
Appended(before, after) == Len(after) = Len(before) + 1

\* C5: for Sleep and for Feeding, start while a session of that kind is
\* Running is a no-op: the session keeps its start_time and metadata, nothing
\* is appended, and there is never more than one session per kind.
C5_Step ==
    /\ (ScriptRun("start_slaap") /\ active_slaap_session # << >>) =>
          /\ active_slaap_session' = active_slaap_session
          /\ sheet_baby' = sheet_baby
    /\ (ScriptRun("start_voeding") /\ active_voeding_session # << >>) =>
          /\ active_voeding_session' = active_voeding_session
          /\ sheet_baby' = sheet_baby
    /\ Len(active_slaap_session') <= 1
    /\ Len(active_voeding_session') <= 1

C5_StartWhileRunningIsNoOp == [][C5_Step]_vars

\* Start slaap was pressed a minute after the session began; the session
\* still carries its first start_time
C5_Witness ==
    /\ out.op = "start_slaap"
    /\ out.msgs = << >>
    /\ active_slaap_session # << >>
    /\ active_slaap_session[1].start_time < now

\* C6: stop while the session of that kind is Idle reports a warning and
\* changes nothing: the session stays Idle, no record is appended, the
\* pending note keeps its text.
C6_Step ==
    /\ (ScriptRun("stop_slaap") /\ active_slaap_session = << >>) =>
          /\ \E j \in 1..Len(out'.msgs) : out'.msgs[j] = "warning"
          /\ active_slaap_session' = << >>
          /\ sheet_baby' = sheet_baby
          /\ slaap_opmerking' = slaap_opmerking
          /\ active_voeding_session' = active_voeding_session
          /\ voeding_opmerking' = voeding_opmerking
    /\ (ScriptRun("stop_voeding") /\ active_voeding_session = << >>) =>
          /\ \E j \in 1..Len(out'.msgs) : out'.msgs[j] = "warning"
          /\ active_voeding_session' = << >>
          /\ sheet_baby' = sheet_baby
          /\ voeding_opmerking' = voeding_opmerking
          /\ active_slaap_session' = active_slaap_session
          /\ slaap_opmerking' = slaap_opmerking

C6_StopWhileIdleChangesNothing == [][C6_Step]_vars

\* Stop slaap was pressed with no session and a note typed
C6_Witness ==
    /\ out.op = "stop_slaap"
    /\ out.msgs = <<"warning">>
    /\ active_slaap_session = << >>
    /\ slaap_opmerking = "moe"

\* C7: whenever stop moves a Sleep or Feeding session from Running to Idle,
\* exactly one record of that kind with the session's start_time has been
\* appended to the store.
C7_Step ==
    /\ (active_slaap_session # << >> /\ active_slaap_session' = << >>) =>
          /\ Appended(sheet_baby, sheet_baby')
          /\ LastRow(sheet_baby')[2] = Str("Slaap")
          /\ LastRow(sheet_baby')[3] = Strftime(active_slaap_session[1].start_time)
    /\ (active_voeding_session # << >> /\ active_voeding_session' = << >>) =>
          /\ Appended(sheet_baby, sheet_baby')
          /\ LastRow(sheet_baby')[2] = Str("Voeding")
          /\ LastRow(sheet_baby')[3] = Strftime(active_voeding_session[1].start_time)

C7_StopAlwaysAppends == [][C7_Step]_vars

\* the amount of the Sleep record a stop of the timer has just appended
TimerAmount == LastRow(sheet_baby')[5][2]
TimerStopped ==
    /\ active_slaap_session # << >>
    /\ ScriptRun("stop_slaap")
    /\ Appended(sheet_baby, sheet_baby')
Elapsed == now - active_slaap_session[1].start_time
Abs(x) == IF x < 0 THEN 0 - x ELSE x

\* C8 as stated: for every elapsed time of s whole seconds the amount of the
\* Sleep record is floor(s/60 + 1/2) (half-up): 84 s gives 1, 90 s gives 2
\* and 150 s gives 3.
C8_HalfUp == [][TimerStopped => TimerAmount = (Elapsed + 30) \div 60]_vars

\* C8, amended: the amount is the integer nearest to s/60 minutes, and when
\* s/60 lies exactly halfway between two integers it is the even one:
\* 30 s gives 0, 84 s gives 1, 90 s gives 2 and 150 s gives 2.
C8_Step ==
    TimerStopped =>
        /\ IsNum(LastRow(sheet_baby')[5])
        /\ Abs(60 * TimerAmount - Elapsed) <= 30
        /\ Abs(60 * TimerAmount - Elapsed) = 30 => TimerAmount % 2 = 0
        /\ Elapsed = 84 => TimerAmount = 1
        /\ Elapsed = 90 => TimerAmount = 2
        /\ Elapsed = 150 => TimerAmount = 2

C8_HalfEven == [][C8_Step]_vars

\* a session of 150 seconds was stopped and recorded with amount 2
C8_Witness ==
    /\ out.op = "stop_slaap"
    /\ now = 150
    /\ Len(sheet_baby) = 2
    /\ sheet_baby[2][3] = Stamp(0)
    /\ sheet_baby[2][5] = Num(2)

\* a value read back equals the value that was written
SameValue(written, loaded) ==
    IF written[1] = "t" THEN loaded = Timestamp(written[2])
    ELSE IF written[1] = "n" THEN loaded \in {written, Float(10 * written[2])}
    ELSE IF written[1] = "d" THEN loaded = Float(written[2])
    ELSE loaded = written

\* C9: a record appended by the add path and then read back by load_data has
\* the same type, the same non-empty field values under the same field names
\* and the same start and end time to the minute, in local time.
C9_RoundTrip ==
    BabyOpen =>
        LET rows == load_data(older, sheet_baby, sheet_voorraad).baby.rows
        IN  /\ Len(rows) = Len(submitted)
            /\ \A i \in 1..Len(submitted) :
                  \A k \in FieldNames :
                      submitted[i][k] # Empty => SameValue(submitted[i][k], rows[i][k])

RECURSIVE DigitsValue(_)
DigitsValue(d) == IF d = << >> THEN 0 ELSE 10 * DigitsValue(SubSeq(d, 1, Len(d) - 1)) + d[Len(d)]

\* the ids of the rows the last script run appended, or tried to
NewIds == {out.calls[j].value[1] : j \in CallsOn(out, "BabyRecords")}

\* C10 as stated: every id is R followed by exactly three digits.
C10_ThreeDigits ==
    out.op \in {"slaap", "luier"} => \A id \in NewIds : id[1] = "r" /\ Len(id[2]) = 3

\* C10, amended: the id is R followed by n + 1 in decimal, padded with zeros
\* to at least three digits, n being the number of records in the snapshot
\* the script run works with (not the rows of the store); it has exactly
\* three digits while n + 1 <= 999 and more from then on.
C10_IdFromSnapshot ==
    out.op \in {"slaap", "luier"} =>
        \A id \in NewIds :
            LET n == LenRecords(baby_records) IN
            /\ id[1] = "r"
            /\ DigitsValue(id[2]) = n + 1
            /\ \A j \in 1..Len(id[2]) : id[2][j] \in 0..9
            /\ Len(id[2]) >= 3
            /\ Len(id[2]) = 3 <=> n + 1 <= 999
            /\ Len(id[2]) > 3 => id[2][1] # 0

\* the thousandth record was appended as R1000
C10_Witness ==
    /\ out.op \in {"slaap", "luier"}
    /\ LenRecords(baby_records) = 999
    /\ \E j \in CallsOn(out, "BabyRecords") :
          out.calls[j].ok /\ out.calls[j].value[1] = <<"r", <<1, 0, 0, 0>>>>

\* C11 (babytracker_7): every appended row has as many cells as the sheet
\* has columns, and holds each submitted field in the column of that name,
\* whatever the record type; fields that were not submitted are ''.
C11_SameLayout ==
    rev = 7 =>
        /\ Len(submitted) = Len(sheet_baby) - 1
        /\ \A i \in 2..Len(sheet_baby) :
              /\ Len(sheet_baby[i]) = Len(BabyHeader)
              /\ \A j \in 2..Len(BabyHeader) :
                    sheet_baby[i][j] = submitted[i - 1][BabyHeader[j][2]]

Has(msgs, m) == \E j \in 1..Len(msgs) : msgs[j] = m

\* C12 (babytracker_7): add_record calls append_row at most once.  When the
\* sheet is unavailable it makes no call, and when the sheet is unavailable
\* or the call fails it reports an error, returns False and leaves the
\* records sheet as it was; it returns True exactly when the sheet has grown
\* by the one row of that call.
C12_Step ==
    (rev = 7 /\ now' = now /\ out'.added # << >>) =>
        LET a == out'.added[1]
            failed == \E j \in 1..Len(a.calls) : ~a.calls[j].ok
        IN  /\ Len(a.calls) <= 1
            /\ ~BabyOpen => a.calls = << >>
            /\ (~BabyOpen \/ failed) =>
                  /\ ~a.success
                  /\ Has(a.msgs, "error")
                  /\ sheet_baby' = sheet_baby
            /\ a.success <=> (/\ Len(a.calls) = 1
                              /\ sheet_baby' = Append(sheet_baby, a.calls[1].value))
            /\ ~a.success => sheet_baby' = sheet_baby

C12_AddRecordFailsCleanly == [][C12_Step]_vars

\* the store rejected the row of a diaper: one attempt, an error, no row
C12_Witness ==
    /\ rev = 7
    /\ out.op = "luier"
    /\ out.added # << >>
    /\ ~out.added[1].success
    /\ Len(out.added[1].calls) = 1
    /\ Has(out.msgs, "error")
    /\ sheet_baby = <<BabyHeader>>

\* the sheet after a run that wrote the first n pairs of u to row r, cell by cell
WroteFirst(before, after, r, u, n) ==
    /\ Len(after) = Len(before)
    /\ \A i \in 1..Len(before) :
          /\ Len(after[i]) = Len(before[i])
          /\ \A j \in 1..Len(before[i]) :
                IF i = r /\ \E m \in 1..n : u[m][1] = j
                THEN \E m \in 1..n : u[m][1] = j /\ after[i][j] = u[m][2]
                ELSE after[i][j] = before[i][j]

\* C14 (babytracker_7): edit_record writes the pairs one cell at a time in the
\* order given; when the k-th write fails the first k-1 stay written, the
\* rest are not attempted, one failure is reported and the result is False;
\* the result is True only when every pair was written.
C14_Step ==
    (rev = 7 /\ now' = now /\ out'.edited # << >>) =>
        LET e == out'.edited[1]
            u == e.updates
            calls == out'.calls
            r == out'.args[1]
            n == Len(calls)
        IN  /\ n <= Len(u)
            /\ \A k \in 1..n :
                  /\ calls[k].fn = "update_cell"
                  /\ calls[k].row = r
                  /\ calls[k].col = u[k][1]
                  /\ calls[k].value = u[k][2]
                  /\ k < n => calls[k].ok
            /\ (n > 0 /\ ~calls[n].ok) =>
                  /\ WroteFirst(sheet_baby, sheet_baby', r, u, n - 1)
                  /\ out'.msgs = <<"error">>
                  /\ ~e.success
            /\ e.success <=> (n = Len(u) /\ \A k \in 1..n : calls[k].ok)
            /\ e.success => WroteFirst(sheet_baby, sheet_baby', r, u, Len(u))

C14_EditWritesInOrder == [][C14_Step]_vars

C14_Witness ==
    /\ rev = 7
    /\ out.op = "bewerk_slaap"
    /\ out.edited # << >>
    /\ ~out.edited[1].success
    /\ Len(out.calls) = 3
    /\ ~out.calls[3].ok
    /\ sheet_baby[out.args[1]][3] = out.edited[1].updates[1][2]
    /\ sheet_baby[out.args[1]][5] # out.edited[1].updates[3][2]
    /\ sheet_baby[out.args[1]][6] # out.edited[1].updates[4][2]

\* C13 (babytracker_7): no add, edit or inventory update refreshes the read
\* cache: a run that loads less than TTL seconds after the load that filled
\* the cache works on that same snapshot, whatever was written in between.
C13_Step ==
    (now' = now /\ cache.valid /\ now - cache.at < TTL) =>
        /\ cache' = cache
        /\ baby_records' = cache.data.baby

C13_WritesKeepCache == [][C13_Step]_vars

C13_Witness ==
    /\ rev = 7
    /\ out.op = "herlaad"
    /\ cache.valid
    /\ now - cache.at < TTL
    /\ \E r \in 2..Len(sheet_baby) : sheet_baby[r][6] = Str("moe")
    /\ baby_records = cache.data.baby
    /\ Len(baby_records.rows) < Len(sheet_baby) - 1
    /\ \A i \in 1..Len(baby_records.rows) : baby_records.rows[i]["Opmerking"] # Str("moe")

\* the store's stock of product p went up by k in this step
StoreRaised(p, k) ==
    \E i \in 2..Len(sheet_voorraad) :
        /\ sheet_voorraad[i][1] = Str(p)
        /\ sheet_voorraad'[i][2] = Num(NumOrZero(sheet_voorraad[i][2]) + k)

\* C15: a row is appended to the replenishment log exactly in the runs where
\* a restock raised the stock of the product in the store by the quantity
\* entered, and that row names the product and the quantity; decrements and
\* diaper records append none.
C15_Step ==
    now' = now =>
        /\ (sheet_bijvulling' # sheet_bijvulling) <=>
              (out'.op = "bijvullen" /\ StoreRaised(out'.args[1], out'.args[2]))
        /\ (sheet_bijvulling' # sheet_bijvulling) =>
              /\ Len(sheet_bijvulling') = Len(sheet_bijvulling) + 1
              /\ sheet_bijvulling'[Len(sheet_bijvulling')][2] = Str(out'.args[1])
              /\ sheet_bijvulling'[Len(sheet_bijvulling')][3] = Num(out'.args[2])

C15_LogExactlyOnRestock == [][C15_Step]_vars

IsStamp(cell) == cell[1] = "t"

\* C16 (babytracker_7): whatever records were added and edited, every stored
\* record that has an end time has it at or after its start time.
C16_EndNotBeforeStart ==
    rev = 7 =>
        \A i \in 2..Len(sheet_baby) :
            IsStamp(sheet_baby[i][4]) =>
                /\ IsStamp(sheet_baby[i][3])
                /\ sheet_baby[i][4][2] >= sheet_baby[i][3][2]

\* C17: a load with the store unreachable (no client, a worksheet that was
\* not opened, or a read of all rows that fails) does not raise to the
\* script, and the tables of the worksheets that could not be read are empty.
C17_UnreachableLoadsEmpty ==
    out.op = "herlaad" =>
        /\ ~out.raised
        /\ ~BabyOpen => baby_records = NoData.baby
        /\ ~VoorraadOpen => voorraad = << >>

\* C18 (babytracker_7): with no credential, or with empty tables, every view
\* can be selected and drawn without an unhandled exception.
C18_EveryViewRendersEmpty ==
    (rev = 7 /\ out.op = "tab" /\ LenRecords(baby_records) = 0) => ~out.raised

\* the last run made an append_row or update_cell call that the store rejected
WriteFailed(o) ==
    \E j \in 1..Len(o.calls) :
        /\ o.calls[j].fn \in {"append_row", "update_cell"}
        /\ ~o.calls[j].ok

\* C19: when an append or a cell update fails in a user action (the log
\* append of the restock and the inventory cell update included), the
\* failure is shown as a message and no exception leaves the action.
C19_WriteFailuresAreReported ==
    WriteFailed(out) => (~out.raised /\ Has(out.msgs, "error"))

\* the number a stored cell stands for, in tenths; 0 for anything that is
\* not a number
Parsed(cell) ==
    IF cell[1] = "n" THEN 10 * cell[2]
    ELSE IF cell[1] \in {"d", "c"} THEN cell[2]
    ELSE 0

\* C20: after a load every numeric field (amount, weight, length,
\* temperature) of every record is a float: a decimal-comma text gives the
\* number its decimal-point form gives ("3,3" gives 3.3), an empty or
\* unparseable value gives 0.0 ("abc" gives 0.0), and the load does not raise.
C20_NumericParsing ==
    out.op = "herlaad" =>
        /\ ~out.raised
        /\ Len(baby_records.rows) = Len(sheet_baby) - 1
        /\ \A i \in 1..Len(baby_records.rows) :
              \A k \in NumericFields :
                  baby_records.rows[i][k] = Float(Parsed(GetAllRecords(sheet_baby)[i][k]))

\* C21 (babytracker_7): the Dashboard banner and the Voorraad tab classify
\* every inventory row alike, rows with an empty or non-numeric stock or
\* minimum included: when the Voorraad tab is drawn right after the Dashboard
\* on the same table, a product is listed in the banner iff it is shown red.
C21_Step ==
    (rev = 7 /\ out.op = "tab" /\ out.args = <<"Dashboard">>
        /\ out'.op = "toon" /\ voorraad' = voorraad) =>
        \A i \in 1..Len(voorraad) :
            Has(out.shown, voorraad[i]["Productnaam"][2]) <=> out'.shown[i] = "red"

C21_BannerMatchesColour == [][C21_Step]_vars

VoedingStopped ==
    /\ rev = 7
    /\ active_voeding_session # << >>
    /\ ScriptRun("stop_voeding")
    /\ Appended(sheet_baby, sheet_baby')

\* C22 (babytracker_7): the record appended when a running Feeding session is
\* stopped has type Voeding, the minute the session started as its start, the
\* minute of the stop as its end, an empty amount, the breast side chosen at
\* the start and feeding type 'Borst'.
C22_Step ==
    VoedingStopped =>
        LET row == LastRow(sheet_baby')
            sessie == active_voeding_session[1]
        IN  /\ row[2] = Str("Voeding")
            /\ row[3] = Stamp(sessie.start_time \div 60)
            /\ row[4] = Stamp(now \div 60)
            /\ row[5] = Empty
            /\ row[8] = Str(sessie.borst)
            /\ row[11] = Str("Borst")

C22_FeedingTimerRecord == [][C22_Step]_vars

C22_Witness ==
    /\ rev = 7
    /\ out.op = "stop_voeding"
    /\ out.added # << >>
    /\ out.added[1].success
    /\ Len(sheet_baby) = 2
    /\ sheet_baby[2][2] = Str("Voeding")
    /\ sheet_baby[2][3] = Stamp(0)
    /\ sheet_baby[2][4] = Stamp(1)
    /\ sheet_baby[2][5] = Empty
    /\ sheet_baby[2][8] = Str("Rechts")

\* C23 as stated (babytracker_7): in every stored record the end time is
\* non-empty only if the type is Slaap; Voeding, Luier and Gezondheid records
\* always have an empty end time.
C23_EndOnlyForSleep ==
    rev = 7 =>
        \A i \in 2..Len(sheet_baby) :
            sheet_baby[i][4] # Empty => sheet_baby[i][2] = Str("Slaap")

\* C23 as the code has it: a record is appended with a non-empty end time
\* only by the Sleep paths and by the stop of the Feeding timer; the manual
\* Feeding form, the Diaper form and the Health form append an empty end time.
C23_Step ==
    (rev = 7 /\ now' = now /\ Appended(sheet_baby, sheet_baby')) =>
        LET row == LastRow(sheet_baby')
        IN  /\ row[4] # Empty =>
                  \/ row[2] = Str("Slaap") /\ out'.op \in {"stop_slaap", "slaap"}
                  \/ row[2] = Str("Voeding") /\ out'.op = "stop_voeding"
            /\ out'.op \in {"voeding", "luier", "gezondheid"} => row[4] = Empty

C23_EndOnlyForSleepAndTimerFeeding == [][C23_Step]_vars

C23_Witness ==
    /\ rev = 7
    /\ out.op = "stop_voeding"
    /\ Len(sheet_baby) > 1
    /\ LastRow(sheet_baby)[2] = Str("Voeding")
    /\ LastRow(sheet_baby)[4] # Empty
    /\ LastRow(sheet_baby)[11] = Str("Borst")

EditSucceeded ==
    /\ rev = 7
    /\ now' = now
    /\ out'.edited # << >>
    /\ out'.edited[1].success

\* C24 (babytracker_7): every edit form passes, for each field it edits, the
\* column at which the add paths write that field (its position in the header
\* row): after a successful edit each named field of the row holds the value
\* entered and every other field of the row is as before.
C24_Step ==
    EditSucceeded =>
        LET u == out'.edited[1].updates
            r == out'.args[1]
        IN  \A j \in 1..Len(BabyHeader) :
                IF \E k \in 1..Len(u) : u[k][3] = BabyHeader[j][2]
                THEN \E k \in 1..Len(u) : u[k][3] = BabyHeader[j][2] /\ sheet_baby'[r][j] = u[k][2]
                ELSE sheet_baby'[r][j] = sheet_baby[r][j]

C24_EditColumnsMatchAddColumns == [][C24_Step]_vars

\* C25 (babytracker_7): when the store has not changed since the snapshot was
\* fetched, the row an edit writes to is the row of the record that was
\* picked in the select box, also when another record of the same type has
\* the same start minute.
C25_Step ==
    (rev = 7 /\ now' = now /\ out'.edited # << >>
        /\ cache'.data = load_data(older, sheet_baby, sheet_voorraad)) =>
        out'.args[1] = out'.edited[1].selected + 1

C25_EditHitsSelectedRow == [][C25_Step]_vars

\* the last run's update_voorraad wrote its cell
UpdateWritten(o) ==
    /\ CalledUpdate(o)
    /\ Len(o.update[1].calls) = 1
    /\ o.update[1].calls[1].ok

\* C26 (babytracker_7): every successful update_voorraad call moves the
\* product's stock in the store from its value v in the store to
\* max(0, v + delta), whether or not the cache was refreshed since the last
\* update; so after any sequence of calls the store holds the initial value
\* with all deltas applied in order and no update is lost.
C26_Step ==
    (rev = 7 /\ now' = now /\ UpdateWritten(out')) =>
        \E i \in 2..Len(sheet_voorraad) :
            /\ sheet_voorraad[i][1] = Str(out'.args[1])
            /\ sheet_voorraad'[i][2] =
                  Num(Max({0, NumOrZero(sheet_voorraad[i][2]) + out'.args[2]}))

C26_NoLostUpdate == [][C26_Step]_vars

\* C27 (babytracker_7): the ids of the records appended by successful
\* add_record calls are pairwise distinct, also when several calls fall in
\* one cache window.
C27_IdsDistinct ==
    rev = 7 =>
        \A i, j \in 2..Len(sheet_baby) : i # j => sheet_baby[i][1] # sheet_baby[j][1]

\* C28: saving a diaper touches the inventory only after its record was
\* appended: when the append failed no inventory call is made and the
\* Voorraad sheet is unchanged, and when an inventory call is made it is a
\* decrement of 'Luiers' by one that follows the successful append of a
\* Luier row.
C28_Step ==
    ScriptRun("luier") =>
        LET a == out'.added[1]
            inv == CallsOn(out', "Voorraad")
        IN  /\ ~a.success => (inv = {} /\ sheet_voorraad' = sheet_voorraad)
            /\ (inv # {} \/ sheet_voorraad' # sheet_voorraad) =>
                  /\ Appended(sheet_baby, sheet_baby')
                  /\ LastRow(sheet_baby')[2] = Str("Luier")
                  /\ out'.args = <<"Luiers", 0 - 1>>
                  /\ \A j \in inv :
                        \E k \in 1..(j - 1) :
                            /\ out'.calls[k].fn = "append_row"
                            /\ out'.calls[k].sheet = "BabyRecords"
                            /\ out'.calls[k].ok

C28_DecrementFollowsAppend == [][C28_Step]_vars

C28_Witness ==
    /\ out.op = "luier"
    /\ out.added # << >>
    /\ ~out.added[1].success
    /\ BabyOpen
    /\ VoorraadOpen
    /\ voorraad # << >>
    /\ CallsOn(out, "Voorraad") = {}
    /\ \E i \in 2..Len(sheet_voorraad) :
          sheet_voorraad[i][1] = Str("Luiers") /\ NumOrZero(sheet_voorraad[i][2]) > 0

\* the last run made at least one store write and none of them failed
Wrote(o) ==
    /\ o.calls # << >>
    /\ \A j \in 1..Len(o.calls) : o.calls[j].ok

\* C29: the manual feeding save, the restock and the stock decrease show a
\* success message only if the store write of the action succeeded.
C29_SuccessOnlyAfterWrite ==
    (out.op \in {"voeding", "bijvullen", "verminderen"} /\ Has(out.msgs, "success")) =>
        Wrote(out)

\* C30 (babytracker_7): a Luier record stored by the add form, whose kind is
\* 'Nat' or 'Vuil', can be selected in the edit view and its fields are drawn
\* without an exception.
C30_EditAcceptsAddedKinds ==
    (rev = 7 /\ out.op = "bewerk_luier"
        /\ \E i \in 2..Len(sheet_baby) :
              sheet_baby[i][2] = Str("Luier") /\ sheet_baby[i][7] \in {Str("Nat"), Str("Vuil")})
        => ~out.raised
====
